---- MODULE Spec2Model ----
(***************************************************************************)
(* Model of the Bierkeller point-of-sale terminal (src/cli.py) and of its  *)
(* MongoDB access layer (src/database.py).                                 *)
(*                                                                         *)
(* Money: a Python Decimal with two fractional digits is an integer number *)
(* of cents; a Decimal as stored in the database is an integer number of   *)
(* mills (1/1000), so that quantize_decimal has something to round.        *)
(* replay is used by SpecOrder only, which applies two sequences of adds to  *)
(* two carts to compare the results.                                       *)
(* beverage_store is the MongoDB database as main() finds it: whether the  *)
(* server answers, and the documents of its products and empties           *)
(* collections.  The initial states are the states main() leaves behind:   *)
(* either the application runs, or sys.exit(1) has ended the process.      *)
(* Text: input_buffer is a sequence of one-character strings; the token    *)
(* "^2" stands for the character U+00B2, for which str.isdigit() is true   *)
(* and int() raises ValueError.                                            *)
(* One action per key binding; Render is the framework's redraw callback   *)
(* (get_cart_text), which prompt_toolkit schedules after key processing:   *)
(* keys that arrive in one read are handled without a redraw in between.   *)
(***************************************************************************)
EXTENDS Integers, Sequences, FiniteSets, TLC

VARIABLES
    beverage_store,
    available_crates_for_selection,
    available_bottles_for_selection,
    available_empties_for_selection,
    current_cart,
    status_message,
    input_buffer,
    input_mode,
    item_to_add,
    quit_confirmation_pending,
    cart_display_order,
    transactions,
    cash_on_hand,
    app_running,
    handler_exception,
    replay

vars == <<beverage_store, available_crates_for_selection,
          available_bottles_for_selection,
          available_empties_for_selection, current_cart, status_message,
          input_buffer, input_mode, item_to_add, quit_confirmation_pending,
          cart_display_order, transactions, cash_on_hand, app_running,
          handler_exception, replay>>

\* what no key binding changes: the catalog in the store, the selection
\* lists, and the two add sequences that SpecOrder replays side by side
static_vars == <<beverage_store, available_crates_for_selection,
                 available_bottles_for_selection,
                 available_empties_for_selection, replay>>

store_vars == <<transactions, cash_on_hand>>

input_vars == <<input_buffer, input_mode, item_to_add>>

-----------------------------------------------------------------------------
(* Bounds *)

\* longest numeric entry buffer explored
MaxBuf == 2

\* largest quantity of one cart line explored
MaxQty == 3

-----------------------------------------------------------------------------
(* Decimal arithmetic and text *)

\* value.quantize(Decimal("0.01"), rounding=ROUND_HALF_UP): mills -> cents,
\* exact halves rounded away from zero.
quantize_decimal(mills) ==
    IF mills >= 0 THEN (mills + 5) \div 10 ELSE -((5 - mills) \div 10)

\* A two-digit Decimal handed to quantize_decimal again (cents -> cents).
requantize(cents) == quantize_decimal(cents * 10)

\* str(d) and f"{d:.2f}" of a Decimal with two fractional digits.
DecimalStr(cents) ==
    LET a == IF cents < 0 THEN -cents ELSE cents
        f == a % 100
    IN  (IF cents < 0 THEN "-" ELSE "") \o ToString(a \div 100) \o "."
        \o (IF f < 10 THEN "0" ELSE "") \o ToString(f)

\* characters int() accepts in the explored alphabet
DecimalDigits == {"0", "1", "2", "3"}

\* characters for which str.isdigit() is true
IsDigitChars == DecimalDigits \cup {"^2"}

\* alphabetic characters that reach the '<any>' binding
AlphaChars == {"Q", "A", "x"}

\* characters that are neither digits nor letters
OtherChars == {" "}

AnyChars == IsDigitChars \cup AlphaChars \cup OtherChars

\* char.lower()
Lower(ch) == CASE ch = "Q" -> "q" [] ch = "A" -> "a" [] OTHER -> ch

\* the string 'abefcrq' of the '<any>' handler
known_commands == {"a", "b", "e", "f", "c", "r", "q"}

DigitVal(ch) == CASE ch = "0" -> 0 [] ch = "1" -> 1 [] ch = "2" -> 2 [] ch = "3" -> 3

\* int(input_buffer) raises ValueError
RaisesValueError(buf) == buf = <<>> \/ \E i \in 1..Len(buf) : buf[i] \notin DecimalDigits

RECURSIVE IntOf(_)
\* int(input_buffer) for a buffer of decimal digits
IntOf(buf) ==
    IF buf = <<>> THEN 0
    ELSE 10 * IntOf(SubSeq(buf, 1, Len(buf) - 1)) + DigitVal(buf[Len(buf)])

RECURSIVE BufStr(_)
\* the buffer as the text an f-string inserts
BufStr(buf) == IF buf = <<>> THEN "" ELSE buf[1] \o BufStr(Tail(buf))

-----------------------------------------------------------------------------
(* Names and their order *)

\* every display name of the explored catalogs, in Python's string order
NameOrder == <<"Cola Bottle", "Cola Crate", "Empty Bottle", "Empty Crate">>

Rank(name) == CHOOSE i \in 1..Len(NameOrder) : NameOrder[i] = name

RECURSIVE InsertSorted(_, _)
\* insert an entry behind every entry whose name is not greater (stable)
InsertSorted(entry, list) ==
    IF list = <<>> THEN <<entry>>
    ELSE IF Rank(entry.name) < Rank(Head(list).name)
         THEN <<entry>> \o list
         ELSE <<Head(list)>> \o InsertSorted(entry, Tail(list))

RECURSIVE SortByName(_)
\* list.sort(key=lambda item: item[0])
SortByName(list) ==
    IF list = <<>> THEN <<>>
    ELSE InsertSorted(list[Len(list)], SortByName(SubSeq(list, 1, Len(list) - 1)))

RECURSIVE SortedNames(_)
\* sorted(current_cart.keys())
SortedNames(names) ==
    IF names = {} THEN <<>>
    ELSE LET m == CHOOSE n \in names : \A o \in names : Rank(n) <= Rank(o)
         IN  <<m>> \o SortedNames(names \ {m})

-----------------------------------------------------------------------------
(* The store: database.py *)

\* Decimal('0.00') of the .get defaults
ZeroMills == 0

\* the cash_on_hand value get_database() initialises, in cents
InitialCash == 10000

\* dict.get(key, default)
Get(doc, key, default) == IF key \in DOMAIN doc THEN doc[key] ELSE default

\* the contents of the products and empties collections that are explored,
\* each sorted by name as find().sort("name", 1) returns them: two complete
\* catalogs, and catalogs with a document that lacks a field
Databases ==
    { [products |-> << [name |-> "Cola", crate_price |-> 12000, crate_deposit |-> 5000,
                        bottle_price |-> 1005, bottle_deposit |-> 150] >>,
       empties  |-> << >>],
      [products |-> << [name |-> "Empty", crate_price |-> 10000, crate_deposit |-> 5000,
                        bottle_price |-> 4850, bottle_deposit |-> 150] >>,
       empties  |-> << [name |-> "Empty Bottle", deposit_value |-> 150],
                       [name |-> "Empty Crate", deposit_value |-> 5000] >>],
      [products |-> << [name |-> "Cola", crate_deposit |-> 5000,
                        bottle_price |-> 1005, bottle_deposit |-> 150] >>,
       empties  |-> << >>],
      [products |-> << [crate_price |-> 12000, crate_deposit |-> 5000,
                        bottle_price |-> 1005, bottle_deposit |-> 150] >>,
       empties  |-> << >>],
      [products |-> << >>,
       empties  |-> << [name |-> "Empty Crate"] >>],
      [products |-> << >>,
       empties  |-> << [deposit_value |-> 5000] >>] }

\* the database as a launch can find it: the server answers the ismaster
\* command of get_database() or it does not
Stores ==
    {[reachable |-> r, products |-> d.products, empties |-> d.empties] :
        r \in BOOLEAN, d \in Databases}

\* the keys get_products() fills in
PriceKeys == {"crate_price", "bottle_price", "crate_deposit", "bottle_deposit"}

\* get_products(): [] when get_database() returns None; otherwise the
\* documents, each with every price field defaulted to Decimal('0.00')
get_products(db) ==
    IF ~db.reachable THEN <<>>
    ELSE [i \in 1..Len(db.products) |->
            LET p == db.products[i]
            IN  [k \in DOMAIN p \cup PriceKeys |-> Get(p, k, ZeroMills)]]

\* get_empties(): [] when get_database() returns None; otherwise the
\* documents, each with deposit_value defaulted to Decimal('0.00')
get_empties(db) ==
    IF ~db.reachable THEN <<>>
    ELSE [i \in 1..Len(db.empties) |->
            LET e == db.empties[i]
            IN  [k \in DOMAIN e \cup {"deposit_value"} |-> Get(e, k, ZeroMills)]]

\* add_transaction returning True without a call of insert_one
add_transaction_reports_unsaved(transaction, storeOk) ==
    IF ~storeOk THEN [ok |-> FALSE, inserted |-> FALSE]
    ELSE [ok |-> TRUE, inserted |-> FALSE]

\* add_transaction with insert_one moved in front of the item loop
add_transaction_inserts_first(transaction, storeOk) ==
    IF ~storeOk THEN [ok |-> FALSE, inserted |-> FALSE]
    ELSE IF DOMAIN transaction.items # {} THEN [ok |-> FALSE, inserted |-> TRUE]
    ELSE [ok |-> TRUE, inserted |-> TRUE]

\* add_transaction(transaction) when the store answers (storeOk) or not.
\* transaction["items"] is a dict keyed by item name, so the loop variable
\* item is a str and item.items() raises AttributeError, which the
\* except clause turns into False before insert_one is reached; only a
\* transaction without items gets as far as insert_one.
add_transaction(transaction, storeOk) ==
    IF ~storeOk THEN [ok |-> FALSE, inserted |-> FALSE]
    ELSE IF DOMAIN transaction.items # {} THEN [ok |-> FALSE, inserted |-> FALSE]
    ELSE [ok |-> TRUE, inserted |-> TRUE]

\* update_cash_on_hand(amount_change): the $inc is applied when the store
\* answers; the result is modified_count > 0 (or an upsert), and an
\* increment by zero modifies no document.
update_cash_on_hand(cash, amount_change, storeOk) ==
    IF ~storeOk THEN [ok |-> FALSE, cash |-> cash]
    ELSE [ok |-> amount_change # 0, cash |-> cash + amount_change]

\* get_cash_on_hand(): Decimal("0.00") when the store does not answer
get_cash_on_hand(cash, storeOk) == IF storeOk THEN cash ELSE 0

-----------------------------------------------------------------------------
(* Catalog loader: populate_selection_lists *)

\* product['name'] or empty["name"] raises KeyError
RaisesKeyError(doc) == "name" \notin DOMAIN doc

RECURSIVE LoopPrefix(_)
\* the documents a for loop of populate_selection_lists gets through: all
\* of them, or those in front of the first one that raises KeyError
LoopPrefix(docs) ==
    IF docs = <<>> \/ RaisesKeyError(Head(docs)) THEN <<>>
    ELSE <<Head(docs)>> \o LoopPrefix(Tail(docs))

\* a loop of populate_selection_lists leaves through except KeyError
LoopRaises(docs) == \E i \in 1..Len(docs) : RaisesKeyError(docs[i])

crate_entries(db) ==
    LET ps == LoopPrefix(get_products(db))
    IN  [i \in 1..Len(ps) |->
            LET crate_price == quantize_decimal(ps[i].crate_price)
                crate_deposit == quantize_decimal(ps[i].crate_deposit)
            IN  [name |-> ps[i].name \o " Crate", base_price |-> crate_price,
                 deposit |-> crate_deposit, total_price |-> crate_price + crate_deposit]]

bottle_entries(db) ==
    LET ps == LoopPrefix(get_products(db))
    IN  [i \in 1..Len(ps) |->
            LET bottle_price == quantize_decimal(ps[i].bottle_price)
                bottle_deposit == quantize_decimal(ps[i].bottle_deposit)
            IN  [name |-> ps[i].name \o " Bottle", base_price |-> bottle_price,
                 deposit |-> bottle_deposit, total_price |-> bottle_price + bottle_deposit]]

\* the empties loop appending (name, credit_value), without the minus
empty_entries_unsigned(db) ==
    LET es == LoopPrefix(get_empties(db))
    IN  [i \in 1..Len(es) |->
            [name |-> es[i].name, credit |-> quantize_decimal(es[i].deposit_value)]]

\* an empty is stored as (name, -credit_value)
empty_entries(db) ==
    LET es == LoopPrefix(get_empties(db))
    IN  [i \in 1..Len(es) |->
            LET credit_value == quantize_decimal(es[i].deposit_value)
            IN  [name |-> es[i].name, credit |-> -credit_value]]

-----------------------------------------------------------------------------
(* Application state *)

\* item_to_add = None
None == [none |-> TRUE]

\* current_cart = {}
EmptyCart == [n \in {} |-> 0]

\* populate_selection_lists() ends in sys.exit(1): one of its loops met a
\* document without a name
FatalStartup(db) == LoopRaises(get_products(db)) \/ LoopRaises(get_empties(db))

\* populate_selection_lists() on the database found at launch: the three
\* loops and the three sorts, or, when a loop raises KeyError, the entries
\* appended up to there
populate_selection_lists ==
    LET db == beverage_store
    IN  IF FatalStartup(db)
        THEN /\ available_crates_for_selection = crate_entries(db)
             /\ available_bottles_for_selection =
                    IF LoopRaises(get_products(db)) THEN <<>> ELSE bottle_entries(db)
             /\ available_empties_for_selection =
                    IF LoopRaises(get_products(db)) THEN <<>> ELSE empty_entries(db)
        ELSE /\ available_crates_for_selection = SortByName(crate_entries(db))
             /\ available_bottles_for_selection = SortByName(bottle_entries(db))
             /\ available_empties_for_selection = SortByName(empty_entries(db))

\* the module-level state once main() has loaded the lists and read the
\* cash for the first status, or has left through sys.exit(1)
InitSession ==
    /\ beverage_store \in Stores
    /\ populate_selection_lists
    /\ current_cart = EmptyCart
    /\ status_message =
         IF FatalStartup(beverage_store) THEN ""
         ELSE "Store Ready. Cash: "
              \o DecimalStr(get_cash_on_hand(InitialCash, beverage_store.reachable))
              \o " EUR"
    /\ input_buffer = <<>>
    /\ input_mode = "IDLE"
    /\ item_to_add = None
    /\ quit_confirmation_pending = FALSE
    /\ cart_display_order = <<>>
    /\ transactions = <<>>
    /\ cash_on_hand = InitialCash
    /\ app_running = ~FatalStartup(beverage_store)
    /\ handler_exception = ""

\* replay when nothing is replayed
NoReplay == [left |-> <<>>, right |-> <<>>]

Init ==
    /\ InitSession
    /\ replay = NoReplay

\* reset_input_state() without item_to_add = None
reset_input_state_keeps_selection ==
    /\ input_buffer' = <<>>
    /\ input_mode' = "IDLE"
    /\ item_to_add' = item_to_add

\* reset_input_state()
reset_input_state ==
    /\ input_buffer' = <<>>
    /\ input_mode' = "IDLE"
    /\ item_to_add' = None

\* handle_action_interrupt() without its test of the input mode
Interrupted_quit_only == quit_confirmation_pending

\* handle_action_interrupt() without its test of the quit confirmation
Interrupted_mode_only == input_mode # "IDLE"

\* handle_action_interrupt() returns True
Interrupted == quit_confirmation_pending \/ input_mode # "IDLE"

\* handle_action_interrupt(): its effect on the state
handle_action_interrupt ==
    /\ quit_confirmation_pending' = FALSE
    /\ status_message' = IF quit_confirmation_pending THEN "Quit cancelled."
                         ELSE IF input_mode # "IDLE" THEN "Input cancelled."
                         ELSE status_message
    /\ IF input_mode # "IDLE" THEN reset_input_state ELSE UNCHANGED input_vars

\* get_cart_text() sorting the names in descending order
sorted_item_names_descending(cart) ==
    LET names == SortedNames(DOMAIN cart)
    IN  [i \in 1..Len(names) |-> names[Len(names) + 1 - i]]

\* sorted_item_names of get_cart_text(); [] for an empty cart
sorted_item_names(cart) == SortedNames(DOMAIN cart)

\* get_cart_text(): the redraw recomputes the display order
Render ==
    /\ app_running
    /\ cart_display_order' = sorted_item_names(current_cart)
    /\ UNCHANGED <<static_vars, current_cart, status_message, input_vars,
                   quit_confirmation_pending, store_vars, app_running,
                   handler_exception>>

\* the 'q' handler leaving at once whatever the cart holds
quit_needs_confirmation_never(cart) == FALSE

\* the 'q' handler asking for confirmation whatever the cart holds
quit_needs_confirmation_always(cart) == TRUE

\* if current_cart: of the 'q' handler
quit_needs_confirmation(cart) == DOMAIN cart # {}

\* kb 'q'
KeyQ ==
    /\ app_running
    /\ handler_exception' = ""
    /\ IF quit_confirmation_pending
       THEN /\ app_running' = FALSE
            /\ UNCHANGED <<status_message, input_vars, quit_confirmation_pending>>
       ELSE IF input_mode # "IDLE"
       THEN /\ reset_input_state
            /\ status_message' = "Input cancelled. Press Q again to quit."
            /\ UNCHANGED <<quit_confirmation_pending, app_running>>
       ELSE IF quit_needs_confirmation(current_cart)
       THEN /\ quit_confirmation_pending' = TRUE
            /\ status_message' = ""
            /\ UNCHANGED <<input_vars, app_running>>
       ELSE /\ app_running' = FALSE
            /\ UNCHANGED <<status_message, input_vars, quit_confirmation_pending>>
    /\ UNCHANGED <<static_vars, current_cart, cart_display_order, store_vars>>

\* kb 'a', 'b', 'e': start selecting from one of the three lists
KeySelect(mode) ==
    /\ app_running
    /\ handler_exception' = ""
    /\ IF Interrupted
       THEN handle_action_interrupt
       ELSE /\ status_message' = ""
            /\ input_buffer' = <<>>
            /\ item_to_add' = None
            /\ input_mode' = mode
            /\ UNCHANGED quit_confirmation_pending
    /\ UNCHANGED <<static_vars, current_cart, cart_display_order, store_vars,
                   app_running>>

KeyA == KeySelect("ADDING_CRATE")

KeyB == KeySelect("ADDING_BOTTLE")

KeyE == KeySelect("ADDING_EMPTY")

\* the handlers without their test for an empty cart
cart_is_empty_never(cart) == FALSE

\* if not current_cart: of the 'r', 'f' and 'c' handlers
cart_is_empty(cart) == DOMAIN cart = {}

\* kb 'r'
KeyR ==
    /\ app_running
    /\ handler_exception' = ""
    /\ IF Interrupted
       THEN handle_action_interrupt
       ELSE IF cart_is_empty(current_cart)
       THEN /\ status_message' = "Cart is empty. Nothing to remove."
            /\ UNCHANGED <<input_vars, quit_confirmation_pending>>
       ELSE /\ status_message' = ""
            /\ input_buffer' = <<>>
            /\ item_to_add' = None
            /\ input_mode' = "REMOVING_ITEM"
            /\ UNCHANGED quit_confirmation_pending
    /\ UNCHANGED <<static_vars, current_cart, cart_display_order, store_vars,
                   app_running>>

RECURSIVE SumLines(_, _)
\* the loop total += item_details['total_price'] * item_details['quantity']
SumLines(cart, names) ==
    IF names = {} THEN 0
    ELSE LET n == CHOOSE m \in names : TRUE
         IN  cart[n].total_price * cart[n].quantity + SumLines(cart, names \ {n})

\* the total of the 'f' handler: the sum of the lines, quantized
compute_total(cart) == requantize(SumLines(cart, DOMAIN cart))

\* logged_items of the 'f' handler
logged_items(cart) ==
    [n \in DOMAIN cart |->
        [quantity |-> cart[n].quantity,
         base_price |-> DecimalStr(cart[n].base_price),
         deposit |-> DecimalStr(cart[n].deposit),
         total_price_per_item |-> DecimalStr(cart[n].total_price),
         line_total |-> DecimalStr(requantize(cart[n].total_price * cart[n].quantity))]]

\* datetime.now().isoformat(), as far as explored
Timestamps == {"t1"}

\* the transaction dict of the 'f' handler
build_transaction(cart, now) ==
    [timestamp |-> now, total |-> DecimalStr(compute_total(cart)),
     items |-> logged_items(cart)]

\* the messages of the two exceptions the 'f' handler raises
MsgNotSaved == "Error saving transaction: Transaction could not be saved to database"

MsgCashNotUpdated == "Error saving transaction: Cash could not be updated"

\* kb 'f': addOk, incOk, readOk say whether the store answers each call
KeyF(addOk, incOk, readOk, now) ==
    /\ app_running
    /\ handler_exception' = ""
    /\ IF Interrupted
       THEN /\ handle_action_interrupt
            /\ UNCHANGED <<current_cart, cart_display_order, store_vars>>
       ELSE IF cart_is_empty(current_cart)
       THEN /\ status_message' = "Cart is empty. Nothing to finish."
            /\ UNCHANGED <<input_vars, quit_confirmation_pending, current_cart,
                           cart_display_order, store_vars>>
       ELSE LET total == compute_total(current_cart)
                transaction == build_transaction(current_cart, now)
                added == add_transaction(transaction, addOk)
                updated == update_cash_on_hand(cash_on_hand, total, incOk)
            IN  /\ transactions' = IF added.inserted THEN Append(transactions, transaction)
                                   ELSE transactions
                /\ UNCHANGED quit_confirmation_pending
                /\ IF ~added.ok
                   THEN /\ status_message' = MsgNotSaved
                        /\ UNCHANGED <<cash_on_hand, current_cart, cart_display_order,
                                       input_vars>>
                   ELSE IF ~updated.ok
                   THEN /\ cash_on_hand' = updated.cash
                        /\ status_message' = MsgCashNotUpdated
                        /\ UNCHANGED <<current_cart, cart_display_order, input_vars>>
                   ELSE /\ cash_on_hand' = updated.cash
                        /\ status_message' =
                             "Transaction finished. Total: " \o DecimalStr(total)
                             \o " EUR. Cash: "
                             \o DecimalStr(get_cash_on_hand(updated.cash, readOk))
                             \o " EUR."
                        /\ current_cart' = EmptyCart
                        /\ cart_display_order' = <<>>
                        /\ reset_input_state
    /\ UNCHANGED <<static_vars, app_running>>

\* the 'c' handler dropping only the first line of the cart
cart_after_cancel_first_only(cart) ==
    [n \in DOMAIN cart \ {SortedNames(DOMAIN cart)[1]} |-> cart[n]]

\* current_cart = {} of the 'c' handler
cart_after_cancel(cart) == EmptyCart

\* kb 'c'
KeyC ==
    /\ app_running
    /\ handler_exception' = ""
    /\ IF Interrupted
       THEN /\ handle_action_interrupt
            /\ UNCHANGED <<current_cart, cart_display_order>>
       ELSE IF cart_is_empty(current_cart)
       THEN /\ status_message' = "Cart is already empty."
            /\ UNCHANGED <<input_vars, quit_confirmation_pending, current_cart,
                           cart_display_order>>
       ELSE /\ current_cart' = cart_after_cancel(current_cart)
            /\ cart_display_order' = <<>>
            /\ status_message' = "Transaction cancelled. Cart cleared."
            /\ reset_input_state
            /\ UNCHANGED quit_confirmation_pending
    /\ UNCHANGED <<static_vars, store_vars, app_running>>

\* kb 'escape'
KeyEscape ==
    /\ app_running
    /\ handler_exception' = ""
    /\ IF input_mode # "IDLE"
       THEN /\ reset_input_state
            /\ status_message' = "Input cancelled."
            /\ UNCHANGED quit_confirmation_pending
       ELSE IF quit_confirmation_pending
       THEN handle_action_interrupt
       ELSE /\ status_message' = ""
            /\ UNCHANGED <<input_vars, quit_confirmation_pending>>
    /\ UNCHANGED <<static_vars, current_cart, cart_display_order, store_vars,
                   app_running>>

\* the 'backspace' handler emptying the buffer
without_last_char_clears(buffer) == <<>>

\* input_buffer[:-1]
without_last_char(buffer) == SubSeq(buffer, 1, Len(buffer) - 1)

\* kb 'backspace'
KeyBackspace ==
    /\ app_running
    /\ handler_exception' = ""
    /\ IF input_mode # "IDLE" /\ input_buffer # <<>>
       THEN /\ input_buffer' = without_last_char(input_buffer)
            /\ status_message' = ""
            /\ UNCHANGED <<input_mode, item_to_add, quit_confirmation_pending>>
       ELSE IF quit_confirmation_pending
       THEN handle_action_interrupt
       ELSE UNCHANGED <<status_message, input_vars, quit_confirmation_pending>>
    /\ UNCHANGED <<static_vars, current_cart, cart_display_order, store_vars,
                   app_running>>

\* the tuple a valid item number stores in item_to_add, for the crate and
\* bottle lists
selected_item(entry) ==
    [name |-> entry.name, base_price |-> entry.base_price,
     deposit |-> entry.deposit, total_price |-> entry.total_price]

\* the same for the empties list: no base price or deposit, the (negative)
\* credit as total price
selected_empty(entry) ==
    [name |-> entry.name, base_price |-> 0, deposit |-> 0, total_price |-> entry.credit]

\* the quantity branch without its assert
PriceMismatch_unchecked(cart, item) == FALSE

\* what item_to_add becomes for each number of the crate or bottle list
selectable(list) == [i \in 1..Len(list) |-> selected_item(list[i])]

\* the empties branch indexing the list from its end
selectable_empties_reversed(list) ==
    [i \in 1..Len(list) |-> selected_empty(list[Len(list) + 1 - i])]

\* what item_to_add becomes for each number of the empties list
selectable_empties(list) == [i \in 1..Len(list) |-> selected_empty(list[i])]

\* the assert of the quantity branch fails
PriceMismatch(cart, item) ==
    item.name \in DOMAIN cart /\ cart[item.name].total_price # item.total_price

\* the quantity branch with = in place of += on an existing line
add_or_merge_overwrite(cart, item, quantity) ==
    [n \in DOMAIN cart \cup {item.name} |->
        IF n = item.name
        THEN [quantity |-> quantity, base_price |-> item.base_price,
              deposit |-> item.deposit, total_price |-> item.total_price]
        ELSE cart[n]]

\* the cart after the quantity branch added quantity of item
add_or_merge(cart, item, quantity) ==
    IF item.name \in DOMAIN cart
    THEN [cart EXCEPT ![item.name].quantity = @ + quantity]
    ELSE [n \in DOMAIN cart \cup {item.name} |->
            IF n = item.name
            THEN [quantity |-> quantity, base_price |-> item.base_price,
                  deposit |-> item.deposit, total_price |-> item.total_price]
            ELSE cart[n]]

\* del current_cart[name]
remove_line(cart, name) == [n \in DOMAIN cart \ {name} |-> cart[n]]

\* the item-number branches without input_buffer = "" after an error
EnterItemNumber_keeps_buffer(list, kind) ==
    IF RaisesValueError(input_buffer)
    THEN /\ status_message' = "Error: Invalid input: '" \o BufStr(input_buffer) \o "'"
         /\ UNCHANGED <<input_buffer, input_mode, item_to_add>>
    ELSE LET num == IntOf(input_buffer)
         IN  IF 1 <= num /\ num <= Len(list)
             THEN /\ item_to_add' = list[num]
                  /\ input_mode' = "ADDING_QUANTITY"
                  /\ input_buffer' = <<>>
                  /\ status_message' = ""
             ELSE /\ status_message' = "Error: Invalid " \o kind \o " number: " \o ToString(num)
                  /\ UNCHANGED <<input_buffer, input_mode, item_to_add>>

\* the three item-number branches of the 'enter' handler; list holds the
\* value of item_to_add for each valid number
EnterItemNumber(list, kind) ==
    IF RaisesValueError(input_buffer)
    THEN /\ status_message' = "Error: Invalid input: '" \o BufStr(input_buffer) \o "'"
         /\ input_buffer' = <<>>
         /\ UNCHANGED <<input_mode, item_to_add>>
    ELSE LET num == IntOf(input_buffer)
         IN  IF 1 <= num /\ num <= Len(list)
             THEN /\ item_to_add' = list[num]
                  /\ input_mode' = "ADDING_QUANTITY"
                  /\ input_buffer' = <<>>
                  /\ status_message' = ""
             ELSE /\ status_message' = "Error: Invalid " \o kind \o " number: " \o ToString(num)
                  /\ input_buffer' = <<>>
                  /\ UNCHANGED <<input_mode, item_to_add>>

\* the quantity test with >= in place of >
quantity_accepted_nonneg(quantity) == quantity >= 0

\* the test quantity > 0 of the quantity branch
quantity_accepted(quantity) == quantity > 0

\* the quantity branch of the 'enter' handler
EnterQuantity ==
    IF RaisesValueError(input_buffer)
    THEN /\ status_message' = "Error: Invalid quantity: '" \o BufStr(input_buffer) \o "'"
         /\ input_buffer' = <<>>
         /\ handler_exception' = ""
         /\ UNCHANGED <<input_mode, item_to_add, current_cart>>
    ELSE LET quantity == IntOf(input_buffer)
         IN  IF quantity_accepted(quantity)
             THEN IF item_to_add # None
                  THEN IF PriceMismatch(current_cart, item_to_add)
                       THEN \* AssertionError leaves the handler
                            /\ handler_exception' = "AssertionError"
                            /\ UNCHANGED <<status_message, input_vars, current_cart>>
                       ELSE /\ current_cart' = add_or_merge(current_cart, item_to_add, quantity)
                            /\ current_cart'[item_to_add.name].quantity <= MaxQty
                            /\ status_message' = "Added " \o ToString(quantity) \o "x "
                                                 \o item_to_add.name
                            /\ reset_input_state
                            /\ handler_exception' = ""
                  ELSE /\ status_message' =
                            "Error: No item selected to add quantity for (Internal Error)."
                       /\ reset_input_state
                       /\ handler_exception' = ""
                       /\ UNCHANGED current_cart
             ELSE /\ status_message' = "Error: Quantity must be positive."
                  /\ input_buffer' = <<>>
                  /\ handler_exception' = ""
                  /\ UNCHANGED <<input_mode, item_to_add, current_cart>>

\* cart_display_order[num]: the index used without the - 1
display_entry_zero_based(order, num) ==
    IF num < Len(order) THEN order[num + 1] ELSE order[num]

\* cart_display_order[num - 1]: the name shown as item number num
display_entry(order, num) == order[num]

\* the removal branch of the 'enter' handler
EnterRemoval ==
    IF RaisesValueError(input_buffer)
    THEN /\ status_message' = "Error: Invalid input: '" \o BufStr(input_buffer) \o "'"
         /\ input_buffer' = <<>>
         /\ UNCHANGED <<input_mode, item_to_add, current_cart>>
    ELSE LET num == IntOf(input_buffer)
         IN  IF 1 <= num /\ num <= Len(cart_display_order)
             THEN LET item_name_to_remove == display_entry(cart_display_order, num)
                  IN  IF item_name_to_remove \in DOMAIN current_cart
                      THEN /\ current_cart' = remove_line(current_cart, item_name_to_remove)
                           /\ status_message' = "Removed item #" \o ToString(num) \o ": "
                                                \o item_name_to_remove
                           /\ reset_input_state
                      ELSE /\ status_message' = "Error: Item '" \o item_name_to_remove
                                                \o "' not found in cart (Internal Error)."
                           /\ reset_input_state
                           /\ UNCHANGED current_cart
             ELSE /\ status_message' = "Error: Invalid cart item number: " \o ToString(num)
                  /\ input_buffer' = <<>>
                  /\ UNCHANGED <<input_mode, item_to_add, current_cart>>

\* the 'enter' handler without its test for an empty buffer
nothing_entered_never(buffer, mode) == FALSE

\* if not input_buffer and input_mode != InputMode.IDLE
nothing_entered(buffer, mode) == buffer = <<>> /\ mode # "IDLE"

\* kb 'enter'
KeyEnter ==
    /\ app_running
    /\ IF quit_confirmation_pending
       THEN /\ handle_action_interrupt
            /\ handler_exception' = ""
            /\ UNCHANGED current_cart
       ELSE /\ UNCHANGED quit_confirmation_pending
            /\ IF nothing_entered(input_buffer, input_mode)
               THEN /\ status_message' = "Error: No number entered."
                    /\ handler_exception' = ""
                    /\ UNCHANGED <<input_vars, current_cart>>
               ELSE CASE input_mode = "ADDING_CRATE" ->
                           /\ EnterItemNumber(selectable(available_crates_for_selection),
                                              "crate")
                           /\ handler_exception' = ""
                           /\ UNCHANGED current_cart
                      [] input_mode = "ADDING_BOTTLE" ->
                           /\ EnterItemNumber(selectable(available_bottles_for_selection),
                                              "bottle")
                           /\ handler_exception' = ""
                           /\ UNCHANGED current_cart
                      [] input_mode = "ADDING_EMPTY" ->
                           /\ EnterItemNumber(selectable_empties(available_empties_for_selection),
                                              "empty")
                           /\ handler_exception' = ""
                           /\ UNCHANGED current_cart
                      [] input_mode = "ADDING_QUANTITY" -> EnterQuantity
                      [] input_mode = "REMOVING_ITEM" ->
                           /\ EnterRemoval
                           /\ handler_exception' = ""
                      [] OTHER ->
                           /\ handler_exception' = ""
                           /\ UNCHANGED <<status_message, input_vars, current_cart>>
    /\ UNCHANGED <<static_vars, cart_display_order, store_vars, app_running>>

\* the mode list of the '<any>' handler with IDLE among the modes
InputModes_with_idle == {"IDLE", "ADDING_CRATE", "ADDING_BOTTLE", "ADDING_EMPTY",
                         "ADDING_QUANTITY", "REMOVING_ITEM"}

\* the modes in which the '<any>' handler appends a digit
InputModes == {"ADDING_CRATE", "ADDING_BOTTLE", "ADDING_EMPTY", "ADDING_QUANTITY",
               "REMOVING_ITEM"}

\* kb '<any>': every character without a binding of its own
KeyAny(char) ==
    /\ app_running
    /\ handler_exception' = ""
    /\ IF quit_confirmation_pending /\ Lower(char) # "q"
       THEN handle_action_interrupt
       ELSE /\ UNCHANGED quit_confirmation_pending
            /\ IF char \in IsDigitChars
               THEN IF input_mode \in InputModes
                    THEN /\ Len(input_buffer) < MaxBuf
                         /\ input_buffer' = Append(input_buffer, char)
                         /\ status_message' = ""
                         /\ UNCHANGED <<input_mode, item_to_add>>
                    ELSE UNCHANGED <<status_message, input_vars>>
               ELSE IF char \in AlphaChars
               THEN IF input_mode = "IDLE" /\ Lower(char) \notin known_commands
                    THEN /\ status_message' = "Unknown command: " \o char
                         /\ UNCHANGED input_vars
                    ELSE UNCHANGED <<status_message, input_vars>>
               ELSE UNCHANGED <<status_message, input_vars>>
    /\ UNCHANGED <<static_vars, current_cart, cart_display_order, store_vars,
                   app_running>>

\* the store calls a finish keystroke makes in the current state: add
\* (add_transaction), inc (update_cash_on_hand), read (get_cash_on_hand)
FinishCalls(addOk, incOk, now) ==
    LET add == ~Interrupted /\ DOMAIN current_cart # {}
        inc == add /\ add_transaction(build_transaction(current_cart, now), addOk).ok
        read == inc /\ update_cash_on_hand(cash_on_hand, compute_total(current_cart),
                                           incOk).ok
    IN  [add |-> add, inc |-> inc, read |-> read]

\* the answers of the store to draw for a call that is made (both) or is
\* not made (none to draw)
Answers(called) == IF called THEN BOOLEAN ELSE {TRUE}

\* a finish keystroke, with an answer of the store for each call it makes
Finish ==
    \E now \in Timestamps :
        \E addOk \in Answers(FinishCalls(TRUE, TRUE, now).add) :
            \E incOk \in Answers(FinishCalls(addOk, TRUE, now).inc) :
                \E readOk \in Answers(FinishCalls(addOk, incOk, now).read) :
                    KeyF(addOk, incOk, readOk, now)

Next ==
    \/ Render
    \/ KeyQ
    \/ KeyA
    \/ KeyB
    \/ KeyE
    \/ KeyR
    \/ Finish
    \/ KeyC
    \/ KeyEscape
    \/ KeyBackspace
    \/ KeyEnter
    \/ \E char \in AnyChars : KeyAny(char)

Spec == Init /\ [][Next]_vars

-----------------------------------------------------------------------------
(* Two sequences of adds side by side *)

\* longest sequence of adds replayed
MaxOps == 2

\* the quantities replayed
ReplayQuantities == {1, 2}

\* every value item_to_add can take with the loaded lists
SelectableItems ==
    LET crates == selectable(available_crates_for_selection)
        bottles == selectable(available_bottles_for_selection)
        empties == selectable_empties(available_empties_for_selection)
    IN  {crates[i] : i \in 1..Len(crates)} \cup {bottles[i] : i \in 1..Len(bottles)}
        \cup {empties[i] : i \in 1..Len(empties)}

\* an add: a selected item and the quantity confirmed for it
AddOps == [item : SelectableItems, quantity : ReplayQuantities]

AddSequences == UNION {[1..n -> AddOps] : n \in 0..MaxOps}

\* how often the pair (name, quantity) occurs in a sequence of adds
Occurrences(ops, name, quantity) ==
    Cardinality({i \in 1..Len(ops) :
                    ops[i].item.name = name /\ ops[i].quantity = quantity})

\* the two sequences contribute the same multiset of (name, quantity) pairs
SameNameQuantityBag(a, b) ==
    /\ Len(a) = Len(b)
    /\ \A i \in 1..Len(a) :
         Occurrences(a, a[i].item.name, a[i].quantity)
           = Occurrences(b, a[i].item.name, a[i].quantity)

\* a replayed run: the adds, how many were applied, the cart, and whether
\* every add so far completed (no assertion failed)
StartRun(ops) == [ops |-> ops, applied |-> 0, cart |-> EmptyCart, completed |-> TRUE]

\* the quantity branch applied to the cart of a run
ApplyNext(run) ==
    LET op == run.ops[run.applied + 1]
    IN  IF PriceMismatch(run.cart, op.item)
        THEN [run EXCEPT !.applied = @ + 1, !.completed = FALSE]
        ELSE [run EXCEPT !.applied = @ + 1,
                         !.cart = add_or_merge(run.cart, op.item, op.quantity)]

RunDone(run) == run.applied = Len(run.ops)

InitOrder ==
    /\ InitSession
    /\ \E a, b \in AddSequences :
        /\ SameNameQuantityBag(a, b)
        /\ replay = [left |-> StartRun(a), right |-> StartRun(b)]

ReplayLeft ==
    /\ ~RunDone(replay.left)
    /\ replay' = [replay EXCEPT !.left = ApplyNext(replay.left)]
    /\ UNCHANGED <<beverage_store, available_crates_for_selection,
                   available_bottles_for_selection,
                   available_empties_for_selection, current_cart, status_message,
                   input_vars, quit_confirmation_pending, cart_display_order,
                   store_vars, app_running, handler_exception>>

ReplayRight ==
    /\ RunDone(replay.left)
    /\ ~RunDone(replay.right)
    /\ replay' = [replay EXCEPT !.right = ApplyNext(replay.right)]
    /\ UNCHANGED <<beverage_store, available_crates_for_selection,
                   available_bottles_for_selection,
                   available_empties_for_selection, current_cart, status_message,
                   input_vars, quit_confirmation_pending, cart_display_order,
                   store_vars, app_running, handler_exception>>

NextOrder == ReplayLeft \/ ReplayRight

SpecOrder == InitOrder /\ [][NextOrder]_vars

\* both sequences were applied and every add of both completed
BothCompleted ==
    /\ RunDone(replay.left) /\ RunDone(replay.right)
    /\ replay.left.completed /\ replay.right.completed

\* the two runs ended with the same cart lines and the same grand total
SameOutcome ==
    /\ replay.left.cart = replay.right.cart
    /\ compute_total(replay.left.cart) = compute_total(replay.right.cart)

\* every name is taken from one catalog entry throughout both sequences
SameEntryPerName ==
    LET all == replay.left.ops \o replay.right.ops
    IN  \A i, j \in 1..Len(all) :
            all[i].item.name = all[j].item.name => all[i].item = all[j].item

\* C8 as stated: two sequences of completed adds with the same multiset of
\* (name, quantity) pairs, applied to an empty cart, give the same cart lines
\* and the same grand total.
C8_OrderIndependence == BothCompleted => SameOutcome

\* C8 as amended: two sequences of completed adds with the same multiset of
\* (name, quantity) pairs in which every name is taken from one catalog
\* entry, applied to an empty cart, give the same cart lines and the same
\* grand total.
C8_OrderIndependencePerEntry == (BothCompleted /\ SameEntryPerName) => SameOutcome

\* two different orders of two adds of one item were both applied, the
\* second add merging into the line of the first
C8_Witness ==
    /\ BothCompleted
    /\ SameEntryPerName
    /\ Len(replay.left.ops) = 2
    /\ replay.left.ops # replay.right.ops
    /\ replay.left.ops[1].item = replay.left.ops[2].item
    /\ replay.left.cart[replay.left.ops[1].item.name].quantity = 3

-----------------------------------------------------------------------------
(* Commit: the 'f' handler and the store *)

\* the state in which a finish keystroke reaches the commit sequence
ReadyToFinish ==
    /\ app_running
    /\ input_mode = "IDLE"
    /\ ~quit_confirmation_pending
    /\ DOMAIN current_cart # {}

\* a finish keystroke while the store answers every call
FinishStoreWorking == \E readOk \in BOOLEAN, now \in Timestamps : KeyF(TRUE, TRUE, readOk, now)

\* a finish keystroke whose add_transaction call returns False
FinishAppendFails ==
    \E addOk, incOk, readOk \in BOOLEAN, now \in Timestamps :
        /\ KeyF(addOk, incOk, readOk, now)
        /\ ~add_transaction(build_transaction(current_cart, now), addOk).ok

\* the crate list holds one entry, priced 17.00
OneCrateAt17 ==
    /\ Len(available_crates_for_selection) = 1
    /\ available_crates_for_selection[1].total_price = 1700

\* the cart holds exactly quantity 3 of the only crate
ThreeCratesInCart ==
    /\ OneCrateAt17
    /\ DOMAIN current_cart = {available_crates_for_selection[1].name}
    /\ current_cart[available_crates_for_selection[1].name].quantity = 3
    /\ current_cart[available_crates_for_selection[1].name].total_price = 1700

\* C1: with a single crate at 17.00, the keys select-crate, 1, confirm lead
\* to ADDING_QUANTITY; 3, confirm leave exactly that crate with quantity 3
\* (line total 51.00) and mode IDLE; finish with a working store then appends
\* one transaction of total "51.00", adds 51.00 to the cash and empties the
\* cart.
C1_EndToEndSale ==
    [][ /\ (OneCrateAt17 /\ ~Interrupted /\ DOMAIN current_cart = {} /\ KeyA)
            => (input_mode' = "ADDING_CRATE" /\ input_buffer' = <<>>)
        /\ (input_mode = "ADDING_CRATE" /\ input_buffer = <<>>
            /\ ~quit_confirmation_pending /\ KeyAny("1"))
            => input_buffer' = <<"1">>
        /\ (OneCrateAt17 /\ input_mode = "ADDING_CRATE" /\ input_buffer = <<"1">>
            /\ ~quit_confirmation_pending /\ KeyEnter)
            => (/\ input_mode' = "ADDING_QUANTITY"
                /\ item_to_add' = selected_item(available_crates_for_selection[1]))
        /\ (OneCrateAt17 /\ input_mode = "ADDING_QUANTITY" /\ input_buffer = <<"3">>
            /\ item_to_add = selected_item(available_crates_for_selection[1])
            /\ DOMAIN current_cart = {} /\ ~quit_confirmation_pending /\ KeyEnter)
            => (/\ ThreeCratesInCart'
                /\ SumLines(current_cart', DOMAIN current_cart') = 5100
                /\ input_mode' = "IDLE")
        /\ (ThreeCratesInCart /\ ReadyToFinish /\ FinishStoreWorking)
            => (/\ Len(transactions') = Len(transactions) + 1
                /\ transactions'[Len(transactions')].total = "51.00"
                /\ cash_on_hand' = cash_on_hand + 5100
                /\ current_cart' = EmptyCart)
      ]_vars

\* C2: a finish keystroke in IDLE on a non-empty cart with a working store
\* appends exactly one transaction whose total is the quantized grand total
\* of the cart, and adds that total to the cash balance.
C2_CommitRoundTrip ==
    [][ (ReadyToFinish /\ FinishStoreWorking)
        => (/\ Len(transactions') = Len(transactions) + 1
            /\ SubSeq(transactions', 1, Len(transactions)) = transactions
            /\ transactions'[Len(transactions')].total
                 = DecimalStr(compute_total(current_cart))
            /\ cash_on_hand' = cash_on_hand + compute_total(current_cart))
      ]_vars

\* C3: when the transaction append fails during finish, the status is the
\* persistence error, the cash balance and the transaction log are
\* unchanged, and the cart and the idle mode are kept, so that the next
\* finish keystroke attempts the same commit.
C3_AppendFailureKeepsCart ==
    [][ (ReadyToFinish /\ FinishAppendFails)
        => (/\ status_message' = MsgNotSaved
            /\ cash_on_hand' = cash_on_hand
            /\ transactions' = transactions
            /\ current_cart' = current_cart
            /\ ReadyToFinish')
      ]_vars

\* a finish has failed to append and left a non-empty cart behind
C3_Witness ==
    /\ status_message = MsgNotSaved
    /\ ReadyToFinish
    /\ transactions = <<>>
    /\ cash_on_hand = InitialCash

\* a finish keystroke during which the store accepts the append and refuses
\* the cash increment
FinishIncrementRefused ==
    \E readOk \in BOOLEAN, now \in Timestamps : KeyF(TRUE, FALSE, readOk, now)

\* C4: when during finish the append succeeds and the cash increment then
\* fails, the status is the cash-update error, which differs from the
\* persistence error; the log holds exactly one new record, the one built
\* from the cart, and the cash balance is unchanged.
C4_PartialCommitReported ==
    [][ (ReadyToFinish /\ FinishIncrementRefused)
        => (/\ status_message' = MsgCashNotUpdated
            /\ status_message' # MsgNotSaved
            /\ Len(transactions') = Len(transactions) + 1
            /\ SubSeq(transactions', 1, Len(transactions)) = transactions
            /\ transactions'[Len(transactions')].items = logged_items(current_cart)
            /\ cash_on_hand' = cash_on_hand)
      ]_vars

\* C5: after a finish keystroke on a non-empty cart during which the store
\* applies the append and the cash increment, the cart and the cached
\* display order are empty, the mode is IDLE with an empty buffer and no
\* pending selection, and the status reports the new cash balance.
C5_SuccessResetsSession ==
    [][ (ReadyToFinish /\ \E now \in Timestamps : KeyF(TRUE, TRUE, TRUE, now))
        => (/\ current_cart' = EmptyCart
            /\ cart_display_order' = <<>>
            /\ input_mode' = "IDLE"
            /\ input_buffer' = <<>>
            /\ item_to_add' = None
            /\ status_message' =
                 "Transaction finished. Total: "
                 \o DecimalStr(compute_total(current_cart)) \o " EUR. Cash: "
                 \o DecimalStr(cash_on_hand') \o " EUR.")
      ]_vars

-----------------------------------------------------------------------------
(* Cart engine: the quantity and removal branches of the 'enter' handler *)

\* a confirm keystroke that reaches the quantity branch with a number
QuantityConfirm ==
    /\ app_running
    /\ ~quit_confirmation_pending
    /\ input_mode = "ADDING_QUANTITY"
    /\ ~RaisesValueError(input_buffer)
    /\ item_to_add # None
    /\ KeyEnter

\* C6: a completed add of quantity q > 0 for a name already in the cart at
\* the same unit total price keeps one line for the name and raises its
\* quantity by q, and for a name not in the cart creates the line with
\* quantity q; every other line is kept: over a sequence of adds of one name
\* the quantity is the sum of the added quantities.
C6_MergeByName ==
    [][ (/\ QuantityConfirm
         /\ IntOf(input_buffer) > 0
         /\ ~PriceMismatch(current_cart, item_to_add))
        => LET name == item_to_add.name
               q == IntOf(input_buffer)
           IN  /\ DOMAIN current_cart' = DOMAIN current_cart \cup {name}
               /\ current_cart'[name].quantity
                    = (IF name \in DOMAIN current_cart
                       THEN current_cart[name].quantity ELSE 0) + q
               /\ current_cart'[name].total_price = item_to_add.total_price
               /\ \A n \in DOMAIN current_cart \ {name} : current_cart'[n] = current_cart[n]
      ]_vars

\* quantity 2 was merged into an existing line of quantity 1
C6_Witness ==
    /\ status_message = "Added 2x Cola Crate"
    /\ "Cola Crate" \in DOMAIN current_cart
    /\ current_cart["Cola Crate"].quantity = 3

\* C7: confirming a quantity for a pending selection whose name is in the
\* cart at a different unit total price fails (the assertion error leaves
\* the handler) and the cart is exactly as before.
C7_PriceMismatchKeepsCart ==
    [][ (/\ QuantityConfirm
         /\ IntOf(input_buffer) > 0
         /\ item_to_add.name \in DOMAIN current_cart
         /\ current_cart[item_to_add.name].total_price # item_to_add.total_price)
        => (/\ handler_exception' = "AssertionError"
            /\ current_cart' = current_cart)
      ]_vars

\* the assertion failed on a line that is still in the cart at its own price
C7_Witness ==
    /\ handler_exception = "AssertionError"
    /\ item_to_add # None
    /\ item_to_add.name \in DOMAIN current_cart
    /\ current_cart[item_to_add.name].total_price # item_to_add.total_price

\* C9: in REMOVING_ITEM, confirming a number n within the display order
\* deletes the line named by its n-th entry and no other line; the display
\* order recomputed afterwards does not contain that name, and a cart
\* emptied this way has grand total 0.
C9_RemoveByDisplayIndex ==
    [][ (/\ app_running
         /\ ~quit_confirmation_pending
         /\ input_mode = "REMOVING_ITEM"
         /\ ~RaisesValueError(input_buffer)
         /\ IntOf(input_buffer) \in 1..Len(cart_display_order)
         /\ KeyEnter)
        => LET name == cart_display_order[IntOf(input_buffer)]
               recomputed == SortedNames(DOMAIN current_cart')
           IN  /\ DOMAIN current_cart' = DOMAIN current_cart \ {name}
               /\ \A n \in DOMAIN current_cart' : current_cart'[n] = current_cart[n]
               /\ \A i \in 1..Len(recomputed) : recomputed[i] # name
               /\ (DOMAIN current_cart' = {} => compute_total(current_cart') = 0)
      ]_vars

\* the second of two displayed lines was removed
C9_Witness ==
    /\ status_message = "Removed item #2: Cola Crate"
    /\ DOMAIN current_cart = {"Cola Bottle"}

\* C10: in ADDING_QUANTITY, confirming a buffer that parses to 0 (no
\* negative number can be typed) is rejected with the non-positive-quantity
\* error: the cart is not modified, the mode and the pending selection are
\* kept, and the buffer is cleared.
C10_NonPositiveQuantityRejected ==
    [][ (QuantityConfirm /\ IntOf(input_buffer) <= 0)
        => (/\ status_message' = "Error: Quantity must be positive."
            /\ current_cart' = current_cart
            /\ input_mode' = "ADDING_QUANTITY"
            /\ item_to_add' = item_to_add
            /\ input_buffer' = <<>>)
      ]_vars

\* a zero quantity was rejected while a selection is pending
C10_Witness ==
    /\ status_message = "Error: Quantity must be positive."
    /\ input_mode = "ADDING_QUANTITY"
    /\ item_to_add # None
    /\ input_buffer = <<>>

-----------------------------------------------------------------------------
(* Empties *)

\* the line total that get_cart_text and the 'f' handler compute for a line
line_total(cart, name) == cart[name].total_price * cart[name].quantity

\* C11: an empty whose credit value in the store is c is offered with unit
\* total price -c: selecting number i of the empties list makes the i-th
\* empty of the store, at -c, the pending selection; confirming quantity q
\* for it creates a line with line total -c*q, and when that line is the
\* only one the grand total is -c*q.
C11_EmptiesNetAsCredits ==
    [][ \A i \in 1..Len(get_empties(beverage_store)) :
          LET empty == get_empties(beverage_store)[i]
              c == quantize_decimal(empty.deposit_value)
              q == IntOf(input_buffer)
          IN  /\ (/\ app_running /\ ~quit_confirmation_pending
                  /\ input_mode = "ADDING_EMPTY"
                  /\ ~RaisesValueError(input_buffer) /\ IntOf(input_buffer) = i
                  /\ KeyEnter)
                 => (/\ item_to_add' # None
                     /\ item_to_add'.name = empty.name
                     /\ item_to_add'.total_price = -c)
              /\ (/\ QuantityConfirm /\ q > 0
                  /\ item_to_add.name = empty.name /\ item_to_add.total_price = -c
                  /\ empty.name \notin DOMAIN current_cart)
                 => (/\ empty.name \in DOMAIN current_cart'
                     /\ current_cart'[empty.name].total_price = -c
                     /\ line_total(current_cart', empty.name) = -c * q
                     /\ logged_items(current_cart')[empty.name].line_total
                          = DecimalStr(-c * q)
                     /\ (current_cart = EmptyCart
                           => compute_total(current_cart') = -c * q))
      ]_vars

\* two of the empty with credit 5.00 are the only line: -10.00
C11_Witness ==
    /\ status_message = "Added 2x Empty Crate"
    /\ DOMAIN current_cart = {"Empty Crate"}
    /\ current_cart["Empty Crate"].total_price = -500
    /\ line_total(current_cart, "Empty Crate") = -1000
    /\ compute_total(current_cart) = -1000

-----------------------------------------------------------------------------
(* Quit *)

\* idle, with no quit confirmation pending
IdleUnconfirmed ==
    /\ app_running
    /\ input_mode = "IDLE"
    /\ ~quit_confirmation_pending

\* C12: in IDLE with no confirmation pending, the quit key exits at once
\* when the cart is empty and sets the confirmation flag without exiting
\* when it is not; the quit key while the flag is set exits.  The process
\* exits on no other keystroke, so an exit with a non-empty cart is a quit
\* keystroke before which the flag was set.
C12_QuitProtocol ==
    [][ /\ (IdleUnconfirmed /\ DOMAIN current_cart = {} /\ KeyQ) => ~app_running'
        /\ (IdleUnconfirmed /\ DOMAIN current_cart # {} /\ KeyQ)
             => (quit_confirmation_pending' /\ app_running')
        /\ (app_running /\ quit_confirmation_pending /\ KeyQ) => ~app_running'
        /\ (app_running /\ ~app_running')
             => (KeyQ /\ (DOMAIN current_cart = {} \/ quit_confirmation_pending))
        /\ (app_running /\ ~app_running' /\ DOMAIN current_cart' # {})
             => quit_confirmation_pending
      ]_vars

\* the process has exited with lines in the cart, after a confirmed quit
C12_Witness ==
    /\ ~app_running
    /\ ~FatalStartup(beverage_store)
    /\ DOMAIN current_cart # {}
    /\ quit_confirmation_pending

\* a keystroke handled by a binding other than 'q'
OtherKey ==
    \/ KeyA \/ KeyB \/ KeyE \/ KeyR \/ Finish \/ KeyC
    \/ KeyEscape \/ KeyBackspace \/ KeyEnter
    \/ \E char \in AnyChars : KeyAny(char)

\* the step cancels a pending quit and does nothing else
QuitCancelledOnly ==
    /\ ~quit_confirmation_pending'
    /\ status_message' = "Quit cancelled."
    /\ app_running'
    /\ current_cart' = current_cart
    /\ input_vars' = input_vars
    /\ store_vars' = store_vars

\* C13: while the quit confirmation is pending, no keystroke other than the
\* quit key can do anything but clear the flag, report the cancelled quit
\* and stay in the application with cart, input mode, buffer, transaction
\* log and cash as they were.
C13_OtherKeyCancelsQuit ==
    (app_running /\ quit_confirmation_pending)
        => ~ENABLED (OtherKey /\ ~QuitCancelledOnly)

-----------------------------------------------------------------------------
(* Status toolbar *)

\* status_content of get_status_toolbar_text(); readOk says whether the
\* store answers the get_cash_on_hand() call of the last branch
status_content(readOk) ==
    IF quit_confirmation_pending
    THEN " Cart not empty. Press Q again to confirm quit, or any other key to cancel."
    ELSE IF input_mode = "ADDING_CRATE" THEN " Enter Crate #: " \o BufStr(input_buffer)
    ELSE IF input_mode = "ADDING_BOTTLE" THEN " Enter Bottle #: " \o BufStr(input_buffer)
    ELSE IF input_mode = "ADDING_EMPTY" THEN " Enter Empty #: " \o BufStr(input_buffer)
    ELSE IF input_mode = "ADDING_QUANTITY"
    THEN " Enter Quantity for "
         \o (IF item_to_add # None THEN item_to_add.name ELSE "Item")
         \o ": " \o BufStr(input_buffer)
    ELSE IF input_mode = "REMOVING_ITEM"
    THEN " Enter Cart Item # to Remove: " \o BufStr(input_buffer)
    ELSE IF status_message # "" THEN " " \o status_message
    ELSE " Cash: " \o DecimalStr(get_cash_on_hand(cash_on_hand, readOk)) \o " EUR"

\* how many numbers the 'enter' handler accepts in the current mode
SelectionRange ==
    CASE input_mode = "ADDING_CRATE" -> Len(available_crates_for_selection)
      [] input_mode = "ADDING_BOTTLE" -> Len(available_bottles_for_selection)
      [] input_mode = "ADDING_EMPTY" -> Len(available_empties_for_selection)
      [] input_mode = "REMOVING_ITEM" -> Len(cart_display_order)
      [] OTHER -> 0

\* a confirm keystroke that the 'enter' handler rejects: nothing entered,
\* not a number, a number outside the list, or a quantity that is not
\* positive
ConfirmRejected ==
    /\ app_running
    /\ ~quit_confirmation_pending
    /\ input_mode \in InputModes
    /\ \/ input_buffer = <<>>
       \/ RaisesValueError(input_buffer)
       \/ input_mode = "ADDING_QUANTITY" /\ IntOf(input_buffer) <= 0
       \/ input_mode # "ADDING_QUANTITY" /\ IntOf(input_buffer) \notin 1..SelectionRange
    /\ KeyEnter

\* C14: after a confirm keystroke rejected for empty input, an invalid
\* number, a number out of range or a non-positive quantity, the status
\* message is set and the toolbar's status content for the new state is
\* that message; a redraw leaves the message as it is.
C14_RejectionShownInToolbar ==
    [][ /\ ConfirmRejected
            => (/\ status_message' # ""
                /\ \A readOk \in BOOLEAN :
                      status_content(readOk)' = " " \o status_message')
        /\ Render => status_message' = status_message
      ]_vars

-----------------------------------------------------------------------------
(* Startup *)

\* C15: when the store is unreachable at launch, startup is fatal: the
\* application is never running.
C15_UnreachableStoreIsFatal == ~beverage_store.reachable => ~app_running

\* the keys populate_selection_lists reads from a product and from an empty
RequiredProductFields == {"name"} \cup PriceKeys

RequiredEmptyFields == {"name", "deposit_value"}

\* a document of the store found at launch lacks a key that is read from it
MissingField(db) ==
    \/ \E i \in 1..Len(db.products) : ~(RequiredProductFields \subseteq DOMAIN db.products[i])
    \/ \E i \in 1..Len(db.empties) : ~(RequiredEmptyFields \subseteq DOMAIN db.empties[i])

\* the names of the entries of a selection list
ListedNames(list) == {list[i].name : i \in 1..Len(list)}

\* no selection list holds an entry made from a document that lacks a
\* required field
NoEntryFromIncomplete(db) ==
    /\ \A i \in 1..Len(db.products) :
          LET p == db.products[i]
          IN  ("name" \in DOMAIN p /\ ~(RequiredProductFields \subseteq DOMAIN p))
                => /\ p.name \o " Crate" \notin ListedNames(available_crates_for_selection)
                   /\ p.name \o " Bottle" \notin ListedNames(available_bottles_for_selection)
    /\ \A i \in 1..Len(db.empties) :
          LET e == db.empties[i]
          IN  ("name" \in DOMAIN e /\ ~(RequiredEmptyFields \subseteq DOMAIN e))
                => e.name \notin ListedNames(available_empties_for_selection)

\* C16: when a product or empty document of the store lacks a required
\* field, the catalog load is fatal: the application is never running, and
\* no selection list holds an entry made from such a document.
C16_MissingFieldIsFatal ==
    (beverage_store.reachable /\ MissingField(beverage_store))
        => (~app_running /\ NoEntryFromIncomplete(beverage_store))

-----------------------------------------------------------------------------
(* What changes the store *)

\* a finish keystroke that appends the record built from the cart
FinishAppends ==
    \E addOk, incOk, readOk \in BOOLEAN, now \in Timestamps :
        /\ KeyF(addOk, incOk, readOk, now)
        /\ transactions' = Append(transactions, build_transaction(current_cart, now))

\* a keystroke other than finish
NonFinishKey ==
    \/ KeyQ \/ KeyA \/ KeyB \/ KeyE \/ KeyR \/ KeyC
    \/ KeyEscape \/ KeyBackspace \/ KeyEnter
    \/ \E char \in AnyChars : KeyAny(char)

\* C17: the cash balance changes only in a finish keystroke that appends
\* that commit's record, and then by the commit's total; the transaction
\* log changes only by a finish keystroke appending one record; every other
\* keystroke and every redraw leaves both unchanged, and the records in the
\* log are never modified or removed.
C17_StoreChangesOnlyInFinish ==
    [][ /\ (cash_on_hand' # cash_on_hand)
            => (/\ ReadyToFinish
                /\ FinishAppends
                /\ cash_on_hand' = cash_on_hand + compute_total(current_cart))
        /\ (transactions' # transactions) => (ReadyToFinish /\ FinishAppends)
        /\ (NonFinishKey \/ Render) => store_vars' = store_vars
        /\ Len(transactions') >= Len(transactions)
        /\ SubSeq(transactions', 1, Len(transactions)) = transactions
      ]_vars

\* a line was removed from the cart, and the log and the cash are as the
\* store held them at launch
C17_Witness ==
    /\ status_message = "Removed item #1: Cola Bottle"
    /\ DOMAIN current_cart = {"Cola Crate"}
    /\ transactions = <<>>
    /\ cash_on_hand = InitialCash

-----------------------------------------------------------------------------
(* Cancel and interrupt *)

\* C18: cancel-transaction in IDLE with no quit confirmation pending and a
\* non-empty cart removes every line whatever the cart holds, leaves the
\* mode IDLE with an empty buffer and no pending selection, appends no
\* transaction and changes no cash.
C18_CancelClearsCart ==
    [][ (IdleUnconfirmed /\ DOMAIN current_cart # {} /\ KeyC)
        => (/\ DOMAIN current_cart' = {}
            /\ input_mode' = "IDLE"
            /\ input_buffer' = <<>>
            /\ item_to_add' = None
            /\ transactions' = transactions
            /\ cash_on_hand' = cash_on_hand
            /\ app_running')
      ]_vars

\* a cart was cancelled
C18_Witness ==
    /\ status_message = "Transaction cancelled. Cart cleared."
    /\ current_cart = EmptyCart
    /\ input_mode = "IDLE"
    /\ app_running

\* a keystroke of one of the seven command keys
CommandKey == KeyA \/ KeyB \/ KeyE \/ KeyR \/ Finish \/ KeyC \/ KeyQ

\* the two status messages that report a cancelled input: the one of
\* handle_action_interrupt and the one of the 'q' handler
InputCancelledMessages == {"Input cancelled.", "Input cancelled. Press Q again to quit."}

\* C19: a command key pressed while the mode is not IDLE returns to IDLE,
\* discards the buffer and the pending selection, reports the cancelled
\* input and does not execute the command: cart, log and cash are unchanged,
\* the application keeps running, and no quit confirmation is set.
C19_CommandKeyInterrupts ==
    [][ (app_running /\ input_mode # "IDLE" /\ CommandKey)
        => (/\ input_mode' = "IDLE"
            /\ input_buffer' = <<>>
            /\ item_to_add' = None
            /\ status_message' \in InputCancelledMessages
            /\ current_cart' = current_cart
            /\ store_vars' = store_vars
            /\ app_running'
            /\ ~quit_confirmation_pending')
      ]_vars

\* the quit key has interrupted an input with lines in the cart: no exit
\* and no confirmation pending
C19_Witness ==
    /\ status_message = "Input cancelled. Press Q again to quit."
    /\ input_mode = "IDLE"
    /\ DOMAIN current_cart # {}
    /\ ~quit_confirmation_pending
    /\ app_running

\* C20: the quit confirmation is pending only while the mode is IDLE.
C20_QuitPendingOnlyInIdle == quit_confirmation_pending => input_mode = "IDLE"

\* the quit confirmation is pending and the application waits for a key
C20_Witness ==
    /\ quit_confirmation_pending
    /\ app_running
    /\ input_mode = "IDLE"
    /\ input_buffer = <<>>

-----------------------------------------------------------------------------
(* Input state machine: the 'enter', 'escape' and 'backspace' handlers *)

\* the three modes in which an item number is entered
SelectingModes == {"ADDING_CRATE", "ADDING_BOTTLE", "ADDING_EMPTY"}

\* a confirm keystroke in a selecting mode with a number of the mode's list
ValidItemConfirm ==
    /\ app_running
    /\ ~quit_confirmation_pending
    /\ input_mode \in SelectingModes
    /\ ~RaisesValueError(input_buffer)
    /\ IntOf(input_buffer) \in 1..SelectionRange
    /\ KeyEnter

\* C21: a pending selection exists exactly while the mode is
\* ADDING_QUANTITY; it is set only by a valid item confirm in a selecting
\* mode, and it is cleared only by a quantity confirm with a positive
\* number, by escape or by a command key.
C21_PendingSelectionIffQuantityMode ==
    /\ []((item_to_add # None) <=> (input_mode = "ADDING_QUANTITY"))
    /\ [][ /\ (item_to_add = None /\ item_to_add' # None) => ValidItemConfirm
           /\ ValidItemConfirm => item_to_add' # None
           /\ (item_to_add # None /\ item_to_add' = None)
                => \/ QuantityConfirm /\ IntOf(input_buffer) > 0
                   \/ KeyEscape
                   \/ CommandKey
           /\ (item_to_add # None
               /\ \/ (/\ QuantityConfirm /\ IntOf(input_buffer) > 0
                       /\ ~PriceMismatch(current_cart, item_to_add))
                  \/ KeyEscape
                  \/ CommandKey)
                => item_to_add' = None
         ]_vars

\* a selection is pending for a second add, the first one being in the cart
C21_Witness ==
    /\ app_running
    /\ input_mode = "ADDING_QUANTITY"
    /\ item_to_add # None
    /\ DOMAIN current_cart # {}
    /\ item_to_add.name \notin DOMAIN current_cart

\* the three unit prices of a cart line or of a pending selection
unit_prices(line) ==
    [base_price |-> line.base_price, deposit |-> line.deposit,
     total_price |-> line.total_price]

\* C22: every cart line has a quantity of at least 1; a line that is
\* inserted takes its unit prices from the pending selection, and a name
\* that stays in the cart keeps its base price, deposit and total price: a
\* merge changes the quantity only.
C22_CartLinesWellFormed ==
    /\ [](\A n \in DOMAIN current_cart : current_cart[n].quantity >= 1)
    /\ [][ /\ \A n \in DOMAIN current_cart \cap DOMAIN current_cart' :
                unit_prices(current_cart'[n]) = unit_prices(current_cart[n])
           /\ \A n \in DOMAIN current_cart' \ DOMAIN current_cart :
                /\ item_to_add # None
                /\ item_to_add.name = n
                /\ unit_prices(current_cart'[n]) = unit_prices(item_to_add)
         ]_vars

\* a second add of one crate was merged into its line, beside another line
C22_Witness ==
    /\ status_message = "Added 1x Cola Crate"
    /\ DOMAIN current_cart = {"Cola Bottle", "Cola Crate"}
    /\ current_cart["Cola Crate"].quantity = 2
    /\ unit_prices(current_cart["Cola Crate"])
         = [base_price |-> 1200, deposit |-> 500, total_price |-> 1700]

\* the selection list of the current selecting mode
ModeList ==
    CASE input_mode = "ADDING_CRATE" -> available_crates_for_selection
      [] input_mode = "ADDING_BOTTLE" -> available_bottles_for_selection
      [] input_mode = "ADDING_EMPTY" -> available_empties_for_selection

\* the list is in ascending order of display name
IsSortedByName(list) ==
    \A i, j \in 1..Len(list) : i < j => Rank(list[i].name) < Rank(list[j].name)

\* C23: in a selecting mode, confirming a buffer that parses to n within
\* the mode's list makes the n-th entry of that list, which is in ascending
\* order of display name, the pending selection with its name and unit
\* prices, moves to ADDING_QUANTITY, clears the buffer and leaves the cart
\* unchanged.
C23_ValidItemConfirmCaptures ==
    [][ ValidItemConfirm
        => LET entry == ModeList[IntOf(input_buffer)]
           IN  /\ IsSortedByName(ModeList)
               /\ item_to_add' # None
               /\ item_to_add'.name = entry.name
               /\ unit_prices(item_to_add')
                    = (IF input_mode = "ADDING_EMPTY"
                       THEN [base_price |-> 0, deposit |-> 0, total_price |-> entry.credit]
                       ELSE unit_prices(entry))
               /\ input_mode' = "ADDING_QUANTITY"
               /\ input_buffer' = <<>>
               /\ current_cart' = current_cart
      ]_vars

\* the second of two empties is the pending selection
C23_Witness ==
    /\ app_running
    /\ input_mode = "ADDING_QUANTITY"
    /\ input_buffer = <<>>
    /\ Len(available_empties_for_selection) = 2
    /\ item_to_add = selected_empty(available_empties_for_selection[2])
    /\ current_cart = EmptyCart

\* C24: in a mode other than IDLE, a confirm keystroke with an empty buffer
\* reports that no number was entered and changes nothing else: mode,
\* buffer, pending selection and cart are as before.
C24_EmptyInputChangesNothing ==
    [][ (/\ app_running
         /\ ~quit_confirmation_pending
         /\ input_mode # "IDLE"
         /\ input_buffer = <<>>
         /\ KeyEnter)
        => (/\ status_message' = "Error: No number entered."
            /\ input_mode' = input_mode
            /\ input_buffer' = <<>>
            /\ item_to_add' = item_to_add
            /\ current_cart' = current_cart
            /\ store_vars' = store_vars
            /\ app_running')
      ]_vars

\* an empty quantity was confirmed while a selection is pending
C24_Witness ==
    /\ status_message = "Error: No number entered."
    /\ input_mode = "ADDING_QUANTITY"
    /\ item_to_add # None
    /\ input_buffer = <<>>

\* the word the out-of-range message uses for the current mode
ModeKind ==
    CASE input_mode = "ADDING_CRATE" -> "crate"
      [] input_mode = "ADDING_BOTTLE" -> "bottle"
      [] input_mode = "ADDING_EMPTY" -> "empty"
      [] input_mode = "REMOVING_ITEM" -> "cart item"

\* C25: in a selecting mode or in REMOVING_ITEM, confirming a non-empty
\* buffer that is not a number, or that parses to a number outside 1..length
\* of the list (0 and every number for an empty list included), reports the
\* error, clears the buffer and keeps the mode; the cart is unchanged, no
\* selection is captured and no line is removed.
C25_InvalidNumberKeepsMode ==
    [][ (/\ app_running
         /\ ~quit_confirmation_pending
         /\ input_mode \in SelectingModes \cup {"REMOVING_ITEM"}
         /\ input_buffer # <<>>
         /\ \/ RaisesValueError(input_buffer)
            \/ IntOf(input_buffer) \notin 1..SelectionRange
         /\ KeyEnter)
        => (/\ status_message' =
                 (IF RaisesValueError(input_buffer)
                  THEN "Error: Invalid input: '" \o BufStr(input_buffer) \o "'"
                  ELSE "Error: Invalid " \o ModeKind \o " number: "
                       \o ToString(IntOf(input_buffer)))
            /\ input_buffer' = <<>>
            /\ input_mode' = input_mode
            /\ item_to_add' = None
            /\ current_cart' = current_cart)
      ]_vars

\* number 1 was refused for an empty list of empties
C25_Witness ==
    /\ status_message = "Error: Invalid empty number: 1"
    /\ available_empties_for_selection = <<>>
    /\ input_mode = "ADDING_EMPTY"
    /\ input_buffer = <<>>
    /\ item_to_add = None

\* a mode other than IDLE is active
MidEntry == app_running /\ input_mode # "IDLE"

\* C26: from every reachable state in a mode other than IDLE the escape key
\* can be pressed and leads in that one keystroke to IDLE with an empty
\* buffer and no pending selection, reports the cancelled input and leaves
\* the cart unchanged.
C26_EscapeReturnsToIdle ==
    /\ [](MidEntry => ENABLED (KeyEscape /\ input_mode' = "IDLE"))
    /\ [][ (MidEntry /\ KeyEscape)
           => (/\ input_mode' = "IDLE"
               /\ input_buffer' = <<>>
               /\ item_to_add' = None
               /\ status_message' = "Input cancelled."
               /\ current_cart' = current_cart
               /\ store_vars' = store_vars
               /\ app_running')
         ]_vars

\* an input was cancelled while the cart holds lines
C26_Witness ==
    /\ status_message = "Input cancelled."
    /\ app_running
    /\ input_mode = "IDLE"
    /\ input_buffer = <<>>
    /\ item_to_add = None
    /\ DOMAIN current_cart # {}

\* C27: backspace in a mode other than IDLE with a non-empty buffer removes
\* exactly the last character of the buffer and leaves mode, pending
\* selection and cart unchanged; with an empty buffer or in IDLE it changes
\* no mode, buffer, pending selection or cart, and the quit confirmation
\* can only go from pending to cleared.
C27_BackspaceRemovesLastChar ==
    [][ (app_running /\ KeyBackspace)
        => (/\ input_mode' = input_mode
            /\ item_to_add' = item_to_add
            /\ current_cart' = current_cart
            /\ store_vars' = store_vars
            /\ app_running'
            /\ IF input_mode # "IDLE" /\ input_buffer # <<>>
               THEN /\ Len(input_buffer') = Len(input_buffer) - 1
                    /\ input_buffer' \o <<input_buffer[Len(input_buffer)]>> = input_buffer
                    /\ quit_confirmation_pending' = quit_confirmation_pending
               ELSE /\ input_buffer' = input_buffer
                    /\ ~quit_confirmation_pending'
                    /\ (~quit_confirmation_pending => status_message' = status_message))
      ]_vars

\* one character is left in the buffer of a quantity entry
C27_Witness ==
    /\ app_running
    /\ input_mode = "ADDING_QUANTITY"
    /\ item_to_add # None
    /\ Len(input_buffer) = 1
    /\ status_message = ""
    /\ DOMAIN current_cart # {}

\* C28: with an empty cart in IDLE and no quit confirmation pending,
\* remove-item, finish and cancel-transaction only set the status message:
\* the mode stays IDLE, the cart stays empty, no transaction is appended and
\* the cash is unchanged.
C28_EmptyCartCommandsAreNoOps ==
    [][ (IdleUnconfirmed /\ current_cart = EmptyCart /\ (KeyR \/ Finish \/ KeyC))
        => (/\ input_mode' = "IDLE"
            /\ input_buffer' = input_buffer
            /\ item_to_add' = item_to_add
            /\ current_cart' = EmptyCart
            /\ transactions' = transactions
            /\ cash_on_hand' = cash_on_hand
            /\ ~quit_confirmation_pending'
            /\ app_running'
            /\ status_message' \in {"Cart is empty. Nothing to remove.",
                                    "Cart is empty. Nothing to finish.",
                                    "Cart is already empty."})
      ]_vars

\* finish was pressed on an empty cart
C28_Witness ==
    /\ status_message = "Cart is empty. Nothing to finish."
    /\ app_running
    /\ input_mode = "IDLE"
    /\ current_cart = EmptyCart
    /\ transactions = <<>>
    /\ cash_on_hand = InitialCash

-----------------------------------------------------------------------------
(* Display order *)

\* the cached display order is the one a redraw of the current cart gives
DisplayFresh == cart_display_order = SortedNames(DOMAIN current_cart)

\* a confirm keystroke in REMOVING_ITEM with a number in the buffer
RemovalConfirm ==
    /\ app_running
    /\ ~quit_confirmation_pending
    /\ input_mode = "REMOVING_ITEM"
    /\ ~RaisesValueError(input_buffer)
    /\ KeyEnter

\* the messages of the removal branch for a name that is not in the cart
InconsistentStateMessages ==
    {"Error: Item '" \o NameOrder[i] \o "' not found in cart (Internal Error)." :
        i \in 1..Len(NameOrder)}

\* C29: the display order is that of the cart at launch and after every
\* redraw, so that with a redraw after every keystroke each keystroke finds
\* it equal to the sorted names of the cart; a remove confirm taken with
\* such a display order never reports a name missing from the cart, removes
\* the n-th name in ascending order for n within 1..number of cart lines,
\* and rejects n as out of range exactly when n is outside that range.
C29_FreshDisplayOrder ==
    /\ DisplayFresh
    /\ [][ /\ Render => DisplayFresh'
           /\ (DisplayFresh /\ RemovalConfirm)
                => LET n == IntOf(input_buffer)
                       lines == Cardinality(DOMAIN current_cart)
                   IN  /\ status_message' \notin InconsistentStateMessages
                       /\ (status_message' = "Error: Invalid cart item number: "
                                               \o ToString(n))
                            <=> (n \notin 1..lines)
                       /\ (n \in 1..lines)
                            => DOMAIN current_cart'
                                 = DOMAIN current_cart
                                     \ {SortedNames(DOMAIN current_cart)[n]}
         ]_vars

\* number 2 was refused for a cart of one line shown as it is
C29_Witness ==
    /\ status_message = "Error: Invalid cart item number: 2"
    /\ input_mode = "REMOVING_ITEM"
    /\ Cardinality(DOMAIN current_cart) = 1
    /\ DisplayFresh

-----------------------------------------------------------------------------
(* Commit of a cart whose total is 0.00 *)

\* a finish keystroke reaches the commit sequence with a grand total of 0.00
ZeroTotalFinish ==
    /\ ReadyToFinish
    /\ compute_total(current_cart) = 0
    /\ \E now \in Timestamps : KeyF(TRUE, TRUE, TRUE, now)

\* C30: a finish keystroke on a non-empty cart whose grand total is 0.00,
\* while the store answers and applies every call, is a full success: the
\* cash increment by 0.00 reports success, the status is neither of the two
\* error reports but the finished report with total 0.00, one transaction
\* is appended, the cash is unchanged and the cart is cleared.
C30_ZeroTotalCommitSucceeds ==
    [][ ZeroTotalFinish
        => (/\ update_cash_on_hand(cash_on_hand, compute_total(current_cart), TRUE).ok
            /\ status_message' \notin {MsgNotSaved, MsgCashNotUpdated}
            /\ status_message' =
                 "Transaction finished. Total: 0.00 EUR. Cash: "
                 \o DecimalStr(cash_on_hand) \o " EUR."
            /\ Len(transactions') = Len(transactions) + 1
            /\ cash_on_hand' = cash_on_hand
            /\ current_cart' = EmptyCart
            /\ cart_display_order' = <<>>)
      ]_vars

-----------------------------------------------------------------------------
(* Entry buffer in IDLE *)

\* a digit keystroke that changes the entry buffer
DigitChangesBuffer ==
    \E char \in IsDigitChars : KeyAny(char) /\ input_buffer' # input_buffer

\* C32: in every reachable state with input mode IDLE the entry buffer is
\* empty, and no digit keystroke taken in IDLE changes it; as the property
\* holds in the state after every step, every step that ends in IDLE leaves
\* the buffer empty.
C32_IdleBufferEmpty ==
    (app_running /\ input_mode = "IDLE")
        => (input_buffer = <<>> /\ ~ENABLED DigitChangesBuffer)

\* IDLE was entered by a quantity confirm, whose buffer held the digit 2
C32_Witness ==
    /\ input_mode = "IDLE"
    /\ input_buffer = <<>>
    /\ status_message = "Added 2x Cola Crate"

-----------------------------------------------------------------------------
(* Quit confirmation and the cart *)

\* C33: in every reachable state a pending quit confirmation implies a
\* non-empty cart; no step taken while the confirmation is pending changes
\* the cart, and the quit key pressed while it is pending leaves the
\* application with the cart as it was.
C33_QuitPendingKeepsCart ==
    /\ [](quit_confirmation_pending => DOMAIN current_cart # {})
    /\ [][ /\ quit_confirmation_pending => current_cart' = current_cart
           /\ (quit_confirmation_pending /\ KeyQ)
                => (~app_running' /\ current_cart' = current_cart)
         ]_vars

\* the confirming quit has left the application with a cart of two lines
C33_Witness ==
    /\ quit_confirmation_pending
    /\ ~app_running
    /\ Cardinality(DOMAIN current_cart) = 2

====
